---- MODULE Spec2Model ----
(***************************************************************************)
(* GitHub stats generator (Exc1D/Exc1D): the streak calculator, the        *)
(* language ranking, the aggregation step of fetchGitHubStats and the      *)
(* top-level run of main, modelled from scripts/fetchStats.js              *)
(* (src/unnamed/part_002) and scripts/index.js (the tail of                *)
(* src/scripts/helpers/utils.js).                                          *)
(*                                                                         *)
(* Time is counted in hours.  A record's date is a calendar-day number d;  *)
(* new Date("YYYY-MM-DD") is UTC midnight of that day, d * HoursPerDay,    *)
(* and the process runs in UTC (as the workflow runner does), so           *)
(* setHours(0, 0, 0, 0) truncates an instant to the start of its UTC day.  *)
(***************************************************************************)
EXTENDS Integers, Sequences, FiniteSets, TLC

VARIABLES
    contributionDays,  \* calculateStreak: the argument (a sequence of day records)
    now,               \* calculateStreak: the instant new Date() returns, in hours
    streak,            \* calculateStreak: None, or Some of the returned summary
    repos,             \* fetchLanguageData: the repository list of the response
    languages,         \* fetchLanguageData: None, or Some of the returned ranking
    pc,                \* main: where the top-level run stands
    task,              \* fetchGitHubStats: the four fetches handed to Promise.all
    joined,            \* fetchGitHubStats: the state of the Promise.all promise
    error,             \* the error thrown to the catch blocks, "" when none
    userStats,         \* fetchGitHubStats: the fulfilled values, None until then
    repoStats,
    contributionStats,
    languageStats,
    stats,             \* main: None, or Some of the outcome of the aggregation
    svgContent,        \* main: None, or Some of what generateSVG returned
    savedFile,         \* main: whether saveFile wrote the output file
    exitCode,          \* the process: None while it runs, then Some of its exit code
    call               \* fetchWithRetry: one call observed alone, with its attempts

streakVars == <<contributionDays, now, streak>>
langVars == <<repos, languages>>
fetchVars == <<task, joined, error, userStats, repoStats, contributionStats, languageStats>>
mainVars == <<pc, stats, svgContent, savedFile, exitCode>>
retryVars == <<call>>
vars == <<streakVars, langVars, fetchVars, mainVars, retryVars>>

None == <<>>
Some(x) == <<x>>

\* the four fetches of fetchGitHubStats, before main has started
Tasks == {"user", "repos", "contributions", "languages"}
NewTask == [st |-> "pending", i |-> 0, page |-> 1, delays |-> <<>>, error |-> ""]

\* a call of fetchWithRetry before its first attempt: log is the responses its
\* attempts received, returned is the response it returned
NewCall == [st |-> "pending", i |-> 0, delays |-> <<>>, error |-> "",
            log |-> <<>>, returned |-> None]

NotRunning ==
    /\ call = NewCall
    /\ pc = "idle"
    /\ task = [t \in Tasks |-> NewTask]
    /\ joined = "pending"
    /\ error = ""
    /\ userStats = None
    /\ repoStats = None
    /\ contributionStats = None
    /\ languageStats = None
    /\ stats = None
    /\ svgContent = None
    /\ savedFile = FALSE
    /\ exitCode = None

(***************************************************************************)
(* Bounds of the model.                                                    *)
(***************************************************************************)
MaxLen == 4      \* longest enumerated day list
MaxDay == 3      \* enumerated dates are the days 0..MaxDay
MaxRepos == 4    \* most repositories enumerated freely in a repository list
MaxServerPages == 1  \* most non-empty pages the repository listing answers with

HoursPerDay == 24

\* contributionCount values: only "> 0" is ever tested by the code
Counts == {0, 3}
Dates == 0..MaxDay
DayRecords == [date : Dates, contributionCount : Counts]

\* new Date(): the evaluation instant falls on the newest enumerated date or on
\* the day before it (the newest record is then dated in the future), early or
\* late in the day
Nows ==
    {(MaxDay - 1) * HoursPerDay + (HoursPerDay - 1),
     MaxDay * HoursPerDay,
     MaxDay * HoursPerDay + (HoursPerDay - 1)}

SeqsUpTo(S, n) == UNION {[1..k -> S] : k \in 0..n}

\* spec section 8: 10 positive-count entries, then z zero-count entries, then
\* 2 positive-count entries, one per date, the newest on day `last`
RunZerosRun(last, z) ==
    [k \in 1..(12 + z) |->
        [date |-> last - (12 + z) + k,
         contributionCount |-> IF k <= 10 \/ k > 10 + z THEN 3 ELSE 0]]

ExampleDayLists == {RunZerosRun(MaxDay, z) : z \in 1..2}

DayLists == SeqsUpTo(DayRecords, MaxLen) \cup ExampleDayLists

(***************************************************************************)
(* calculateStreak                                                         *)
(***************************************************************************)
\* new Date(rec.date), in hours since day 0
DateOf(d) == d * HoursPerDay

\* d.setHours(0, 0, 0, 0)
SetHours0(t) == (t \div HoursPerDay) * HoursPerDay

RECURSIVE InsertByDate(_, _)
\* the place of record r in the sorted run s under the comparator
\* (a, b) => new Date(a.date) - new Date(b.date); equal dates keep input order
InsertByDate(s, r) ==
    IF s = <<>> THEN <<r>>
    ELSE IF DateOf(s[Len(s)].date) - DateOf(r.date) > 0
         THEN Append(InsertByDate(SubSeq(s, 1, Len(s) - 1), r), s[Len(s)])
         ELSE Append(s, r)

\* mutant: the copy is left in input order (the sort is forgotten)
SortByDateForgotten(days) == days

RECURSIVE SortByDate(_)
\* [...contributionDays].sort(...): ascending by date, stable
SortByDate(days) ==
    IF days = <<>> THEN <<>>
    ELSE InsertByDate(SortByDate(SubSeq(days, 1, Len(days) - 1)), days[Len(days)])

\* Math.floor((today - dayDate) / (1000 * 60 * 60 * 24))
DaysDiff(today, d) == (today - SetHours0(DateOf(d))) \div HoursPerDay

RECURSIVE CurrentScanCountsGrace(_, _, _, _)
\* mutant: a zero-count day inside the grace window is counted as a streak day
CurrentScanCountsGrace(sortedDays, today, i, cur) ==
    IF i < 1 THEN cur
    ELSE IF sortedDays[i].contributionCount > 0
         THEN IF DaysDiff(today, sortedDays[i].date) <= cur + 1
              THEN CurrentScanCountsGrace(sortedDays, today, i - 1, cur + 1)
              ELSE cur
         ELSE IF DaysDiff(today, sortedDays[i].date) <= 1
              THEN CurrentScanCountsGrace(sortedDays, today, i - 1, cur + 1)
              ELSE cur

RECURSIVE CurrentScanNoGrace(_, _, _, _)
\* mutant: every zero-count day ends the scan (no grace window)
CurrentScanNoGrace(sortedDays, today, i, cur) ==
    IF i < 1 THEN cur
    ELSE IF sortedDays[i].contributionCount > 0
         THEN IF DaysDiff(today, sortedDays[i].date) <= cur + 1
              THEN CurrentScanNoGrace(sortedDays, today, i - 1, cur + 1)
              ELSE cur
         ELSE cur

RECURSIVE CurrentScanWideGrace(_, _, _, _)
\* mutant: the grace window also covers the day before yesterday
CurrentScanWideGrace(sortedDays, today, i, cur) ==
    IF i < 1 THEN cur
    ELSE IF sortedDays[i].contributionCount > 0
         THEN IF DaysDiff(today, sortedDays[i].date) <= cur + 1
              THEN CurrentScanWideGrace(sortedDays, today, i - 1, cur + 1)
              ELSE cur
         ELSE IF DaysDiff(today, sortedDays[i].date) <= 2
              THEN CurrentScanWideGrace(sortedDays, today, i - 1, cur)
              ELSE cur

RECURSIVE CurrentScan(_, _, _, _)
\* the backward loop: i is the loop index, cur is currentStreak
CurrentScan(sortedDays, today, i, cur) ==
    IF i < 1 THEN cur
    ELSE IF sortedDays[i].contributionCount > 0
         THEN IF DaysDiff(today, sortedDays[i].date) <= cur + 1
              THEN CurrentScan(sortedDays, today, i - 1, cur + 1)
              ELSE cur
         ELSE IF DaysDiff(today, sortedDays[i].date) <= 1
              THEN CurrentScan(sortedDays, today, i - 1, cur)
              ELSE cur

Max2(a, b) == IF a >= b THEN a ELSE b

RECURSIVE MaxScanNoReset(_, _, _, _)
\* mutant: a zero-count day does not reset tempStreak
MaxScanNoReset(sortedDays, i, temp, mx) ==
    IF i > Len(sortedDays) THEN mx
    ELSE IF sortedDays[i].contributionCount > 0
         THEN MaxScanNoReset(sortedDays, i + 1, temp + 1, Max2(mx, temp + 1))
         ELSE MaxScanNoReset(sortedDays, i + 1, temp, mx)

RECURSIVE MaxScan(_, _, _, _)
\* the forward loop: temp is tempStreak, mx is maxStreak
MaxScan(sortedDays, i, temp, mx) ==
    IF i > Len(sortedDays) THEN mx
    ELSE IF sortedDays[i].contributionCount > 0
         THEN MaxScan(sortedDays, i + 1, temp + 1, Max2(mx, temp + 1))
         ELSE MaxScan(sortedDays, i + 1, 0, mx)

\* mutant: the max pass skips the records dated after today
calculateStreakMaxUpToToday(days, t) ==
    IF Len(days) = 0 THEN [current |-> 0, max |-> 0]
    ELSE LET sortedDays == SortByDate(days)
             today == SetHours0(t)
             past == SelectSeq(sortedDays, LAMBDA r : DaysDiff(today, r.date) >= 0)
         IN  [current |-> CurrentScan(sortedDays, today, Len(sortedDays), 0),
              max |-> MaxScan(past, 1, 0, 0)]

calculateStreak(days, t) ==
    IF Len(days) = 0 THEN [current |-> 0, max |-> 0]
    ELSE LET sortedDays == SortByDate(days)
             today == SetHours0(t)
         IN  [current |-> CurrentScan(sortedDays, today, Len(sortedDays), 0),
              max |-> MaxScan(sortedDays, 1, 0, 0)]

InitStreak ==
    /\ contributionDays \in DayLists
    /\ now \in Nows
    /\ streak = None
    /\ repos = <<>>
    /\ languages = None
    /\ NotRunning

CalculateStreak ==
    /\ streak = None
    /\ streak' = Some(calculateStreak(contributionDays, now))
    /\ UNCHANGED <<contributionDays, now, langVars, fetchVars, mainVars, retryVars>>

NextStreak == CalculateStreak

SpecStreak == InitStreak /\ [][NextStreak]_vars

(***************************************************************************)
(* Reference notions the streak claims are stated with, defined from the   *)
(* input alone (not through the scans above).                              *)
(***************************************************************************)
Result == streak[1]

\* the calendar day of the evaluation instant, and a record's whole-day offset
TodayDay == now \div HoursPerDay
Offset(r) == TodayDay - r.date

\* position of input entry i after a stable ascending sort by date
Rank(days, i) ==
    Cardinality({j \in 1..Len(days) :
                    \/ days[j].date < days[i].date
                    \/ days[j].date = days[i].date /\ j < i}) + 1

StableSorted(days) ==
    [k \in 1..Len(days) |-> days[CHOOSE i \in 1..Len(days) : Rank(days, i) = k]]

AllPositive(s, i, j) == \A k \in i..j : s[k].contributionCount > 0

\* longest contiguous run, by list position, of positive-count entries
LongestRun(s) ==
    LET lens == {0} \cup {j - i + 1 : i \in 1..Len(s), j \in 1..Len(s)}
    IN  CHOOSE n \in lens :
          /\ n = 0 \/ \E i \in 1..(Len(s) - n + 1) : AllPositive(s, i, i + n - 1)
          /\ \A m \in lens : m > n =>
               ~ \E i \in 1..(Len(s) - m + 1) : AllPositive(s, i, i + m - 1)

NoFutureDates == \A i \in 1..Len(contributionDays) : Offset(contributionDays[i]) >= 0

\* exactly one record per calendar date, on n consecutive dates ending today
DenseEndingToday ==
    /\ Len(contributionDays) >= 1
    /\ \A o \in 0..(Len(contributionDays) - 1) :
         \E i \in 1..Len(contributionDays) : Offset(contributionDays[i]) = o

\* on a dense calendar: the count recorded at offset o (0 when there is no record)
CountAt(o) ==
    IF \E i \in 1..Len(contributionDays) : Offset(contributionDays[i]) = o
    THEN contributionDays[CHOOSE i \in 1..Len(contributionDays) :
                              Offset(contributionDays[i]) = o].contributionCount
    ELSE 0

\* number of calendar-consecutive positive-count days going back from offset o
PositiveRunBackFrom(o) ==
    CHOOSE k \in 0..Len(contributionDays) :
        /\ \A j \in o..(o + k - 1) : CountAt(j) > 0
        /\ CountAt(o + k) = 0

(***************************************************************************)
(* C1.  For every day list with non-negative counts and no date in the     *)
(* future, the summary calculateStreak returns has max >= current.         *)
(***************************************************************************)
C1_MaxAtLeastCurrent ==
    (streak # None /\ NoFutureDates) => Result.max >= Result.current

(***************************************************************************)
(* C2.  n >= 1 records on n consecutive dates ending today, one per date,  *)
(* in any order, all with a positive count: current = n and max = n.       *)
(***************************************************************************)
C2_ConsecutivePositiveDays ==
    (/\ streak # None
     /\ DenseEndingToday
     /\ AllPositive(contributionDays, 1, Len(contributionDays)))
    => /\ Result.current = Len(contributionDays)
       /\ Result.max = Len(contributionDays)

C2_Witness ==
    /\ streak # None
    /\ DenseEndingToday
    /\ AllPositive(contributionDays, 1, Len(contributionDays))
    /\ Len(contributionDays) = 3
    /\ Offset(contributionDays[1]) = 0
    /\ Offset(contributionDays[2]) = 2
    /\ Result = [current |-> 3, max |-> 3]

(***************************************************************************)
(* C3.  Grace window: on a dense calendar ending today whose record for    *)
(* today has count 0 and whose record for yesterday is positive, current   *)
(* is the number of calendar-consecutive positive days ending yesterday.   *)
(***************************************************************************)
C3_GraceWindow ==
    (/\ streak # None
     /\ DenseEndingToday
     /\ CountAt(0) = 0
     /\ CountAt(1) > 0)
    => Result.current = PositiveRunBackFrom(1)

C3_Witness ==
    /\ streak # None
    /\ DenseEndingToday
    /\ Len(contributionDays) = 4
    /\ CountAt(0) = 0
    /\ CountAt(1) > 0
    /\ CountAt(2) > 0
    /\ CountAt(3) = 0
    /\ Result.current = 2

\* the example of the claim: yesterday 3, today 0, nothing or a zero before
C3_WitnessExample ==
    /\ streak # None
    /\ DenseEndingToday
    /\ Len(contributionDays) = 2
    /\ CountAt(0) = 0
    /\ CountAt(1) = 3
    /\ Result.current = 1

(***************************************************************************)
(* C4.  A zero-count record dated two or more days before today ends the   *)
(* current-streak scan: current is at most the number of positive-count    *)
(* records that come after it in the date-sorted list.                     *)
(***************************************************************************)
PositivesAfter(s, k) ==
    Cardinality({j \in (k + 1)..Len(s) : s[j].contributionCount > 0})

C4_ZeroBeyondGraceStops ==
    streak # None =>
        LET s == StableSorted(contributionDays)
        IN  \A k \in 1..Len(s) :
              (s[k].contributionCount = 0 /\ Offset(s[k]) >= 2)
              => Result.current <= PositivesAfter(s, k)

C4_Witness ==
    /\ streak # None
    /\ LET s == StableSorted(contributionDays)
       IN  \E k \in 2..Len(s) :
             /\ s[k].contributionCount = 0
             /\ Offset(s[k]) = 2
             /\ s[k - 1].contributionCount > 0
             /\ Offset(s[k - 1]) = 2
             /\ PositivesAfter(s, k) = 1
             /\ Result.current = 1

(***************************************************************************)
(* C5.  max is the length of the longest contiguous run, by list position, *)
(* of positive-count records in the input sorted ascending by date with a  *)
(* stable sort: duplicates count separately, a missing date does not end a *)
(* run, a zero-count record resets it.                                     *)
(***************************************************************************)
C5_MaxIsLongestPositionalRun ==
    streak # None => Result.max = LongestRun(StableSorted(contributionDays))

\* a duplicated date, a missing date and a reset in one input
C5_Witness ==
    /\ streak # None
    /\ Len(contributionDays) = 4
    /\ contributionDays[1] = [date |-> 3, contributionCount |-> 3]
    /\ contributionDays[2] = [date |-> 0, contributionCount |-> 3]
    /\ contributionDays[3] = [date |-> 0, contributionCount |-> 0]
    /\ contributionDays[4] = [date |-> 0, contributionCount |-> 3]
    /\ Result.max = 2

(***************************************************************************)
(* C6.  max does not depend on the evaluation date: every other value of   *)
(* "today" gives the same max for the same day list; a run of 10 positive  *)
(* entries, zero entries, then 2 positive entries ending today gives       *)
(* max = 10 and current = 2.                                               *)
(***************************************************************************)
C6_MaxIndependentOfToday ==
    streak # None =>
        /\ \A t \in Nows : calculateStreak(contributionDays, t).max = Result.max
        /\ (contributionDays \in ExampleDayLists /\ TodayDay = MaxDay)
           => Result = [current |-> 2, max |-> 10]

C6_Witness ==
    /\ streak # None
    /\ contributionDays \in ExampleDayLists
    /\ TodayDay = MaxDay
    /\ Result = [current |-> 2, max |-> 10]

\* the same list evaluated a day earlier: another current, the same max
C6_WitnessOtherToday ==
    /\ streak # None
    /\ contributionDays \in ExampleDayLists
    /\ TodayDay = MaxDay - 1
    /\ Result.current # 2
    /\ Result.max = 10

(***************************************************************************)
(* C12.  calculateStreak returns {current: 0, max: 0} for the empty list   *)
(* and for every list in which no record has a positive count.             *)
(***************************************************************************)
NoPositive == \A i \in 1..Len(contributionDays) : contributionDays[i].contributionCount = 0

C12_NoPositiveGivesZero ==
    (streak # None /\ NoPositive) => Result = [current |-> 0, max |-> 0]

\* zero-count records today, yesterday and earlier
C12_Witness ==
    /\ streak # None
    /\ NoPositive
    /\ Len(contributionDays) = 3
    /\ \E i \in 1..3 : Offset(contributionDays[i]) = 0
    /\ \E i \in 1..3 : Offset(contributionDays[i]) = 1
    /\ \E i \in 1..3 : Offset(contributionDays[i]) >= 2
    /\ Result = [current |-> 0, max |-> 0]

C12_WitnessEmpty ==
    /\ streak # None
    /\ contributionDays = <<>>
    /\ Result = [current |-> 0, max |-> 0]

(***************************************************************************)
(* C13.  On a dense calendar without duplicates whose newest record is     *)
(* dated today, current is the length of the run of consecutive            *)
(* positive-count days that ends today, or that ends yesterday when        *)
(* today's count is zero; two positive days separated by a zero-count day  *)
(* are never counted in the same current streak.                           *)
(***************************************************************************)
C13_CurrentIsCalendarRun ==
    (streak # None /\ DenseEndingToday) =>
        Result.current = (IF CountAt(0) > 0 THEN PositiveRunBackFrom(0)
                          ELSE PositiveRunBackFrom(1))

(***************************************************************************)
(* C14.  For a fixed today, two input lists that are permutations of each  *)
(* other (dates may repeat, with equal or different counts) give the same  *)
(* current and the same max.  Every list up to the bound is enumerated, so *)
(* agreement under each exchange of two neighbours is agreement under      *)
(* every permutation.                                                      *)
(***************************************************************************)
SwapNeighbours(s, i) ==
    [k \in 1..Len(s) |-> IF k = i THEN s[i + 1] ELSE IF k = i + 1 THEN s[i] ELSE s[k]]

SameUnderExchanges ==
    \A i \in 1..(Len(contributionDays) - 1) :
        calculateStreak(SwapNeighbours(contributionDays, i), now) = Result

C14_OrderIndependent ==
    streak # None => SameUnderExchanges

(***************************************************************************)
(* C14 as amended.  For a fixed today, two input lists that are            *)
(* permutations of each other give the same current and the same max       *)
(* provided the records that share a date share their count (in            *)
(* particular when no date repeats).                                       *)
(***************************************************************************)
SameDateSameCount ==
    \A i \in 1..Len(contributionDays), j \in 1..Len(contributionDays) :
        contributionDays[i].date = contributionDays[j].date
        => contributionDays[i].contributionCount = contributionDays[j].contributionCount

C14_OrderIndependentWithoutConflicts ==
    (streak # None /\ SameDateSameCount) => SameUnderExchanges

\* an unsorted list with a repeated date and a zero-count day
C14_Witness ==
    /\ streak # None
    /\ SameDateSameCount
    /\ Len(contributionDays) = 4
    /\ Offset(contributionDays[1]) = 0
    /\ Offset(contributionDays[2]) = 2
    /\ Offset(contributionDays[3]) = 1
    /\ Offset(contributionDays[4]) = 1
    /\ contributionDays[1].contributionCount > 0
    /\ contributionDays[2].contributionCount = 0
    /\ contributionDays[3].contributionCount > 0
    /\ SameUnderExchanges
    /\ Result = [current |-> 3, max |-> 3]

(***************************************************************************)
(* fetchLanguageData: the ranking computed from the repository list of the *)
(* response.  A repository is its `language` field; Null is a repository   *)
(* without a primary language (language: null).                            *)
(***************************************************************************)
Null == "null"
Langs == {"Go", "Python", "JS", "Rust", "C", "Zig"}
RepoRecords == [language : Langs \cup {Null}]

Repo(l) == [language |-> l]

SixLanguages ==
    <<Repo("Go"), Repo("Python"), Repo("JS"), Repo("Rust"), Repo("C"), Repo("Zig")>>

\* spec section 8: {Go: 5, Python: 3, JS: 3, Rust: 1, C: 1, Zig: 1}
ExampleRepos ==
    <<Repo("Go"), Repo("Python"), Repo("JS"), Repo("Rust"), Repo("C"), Repo("Zig"),
      Repo("Go"), Repo("Python"), Repo("JS"), Repo("Go"), Repo("Python"), Repo("JS"),
      Repo("Go"), Repo("Go")>>

\* a repository list: nothing, six languages once each, or the example, followed
\* by up to MaxRepos arbitrary repositories
RepoLists ==
    {base \o extra : base \in {<<>>, SixLanguages, ExampleRepos},
                     extra \in SeqsUpTo(RepoRecords, MaxRepos)}

TopN == 5

\* languageCounts[repo.language] = (languageCounts[repo.language] || 0) + 1, on
\* the entries of languageCounts in insertion order (the order of Object.entries)
Increment(entries, l) ==
    IF \E k \in 1..Len(entries) : entries[k].name = l
    THEN [k \in 1..Len(entries) |->
            IF entries[k].name = l
            THEN [name |-> l, count |-> entries[k].count + 1]
            ELSE entries[k]]
    ELSE Append(entries, [name |-> l, count |-> 1])

RECURSIVE CountLanguages(_)
\* for (const repo of repos) if (repo.language) ...
CountLanguages(rs) ==
    IF rs = <<>> THEN <<>>
    ELSE LET before == CountLanguages(SubSeq(rs, 1, Len(rs) - 1))
             repo == rs[Len(rs)]
         IN  IF repo.language # Null THEN Increment(before, repo.language)
             ELSE before

RECURSIVE InsertByCountLastFirst(_, _)
\* mutant: among equal counts the entry met later goes first
InsertByCountLastFirst(s, e) ==
    IF s = <<>> THEN <<e>>
    ELSE IF e.count - s[Len(s)].count >= 0
         THEN Append(InsertByCountLastFirst(SubSeq(s, 1, Len(s) - 1), e), s[Len(s)])
         ELSE Append(s, e)

RECURSIVE InsertByCount(_, _)
\* the place of entry e in the sorted run s under the comparator
\* (a, b) => b[1] - a[1]; equal counts keep insertion order
InsertByCount(s, e) ==
    IF s = <<>> THEN <<e>>
    ELSE IF e.count - s[Len(s)].count > 0
         THEN Append(InsertByCount(SubSeq(s, 1, Len(s) - 1), e), s[Len(s)])
         ELSE Append(s, e)

RECURSIVE SortByCount(_)
\* .sort((a, b) => b[1] - a[1]): descending by count, stable
SortByCount(entries) ==
    IF entries = <<>> THEN <<>>
    ELSE InsertByCount(SortByCount(SubSeq(entries, 1, Len(entries) - 1)),
                       entries[Len(entries)])

\* .slice(0, n)
Slice0(s, n) == SubSeq(s, 1, IF Len(s) < n THEN Len(s) ELSE n)

RECURSIVE SumCounts(_)
\* reduce((sum, lang) => sum + lang.count, 0)
SumCounts(s) ==
    IF s = <<>> THEN 0 ELSE SumCounts(SubSeq(s, 1, Len(s) - 1)) + s[Len(s)].count

\* ((count / total) * 100).toFixed(1): the decimal string with one digit after
\* the point, held as its number of tenths; toFixed takes the nearest tenth and,
\* of two equally near, the larger.  (A tie needs total to be a multiple of 16;
\* count / total and the product are then exact in binary floating point.)
ToFixed1(count, total) == (2 * 1000 * count + total) \div (2 * total)

\* mutant: the percentage base is the total over every counted language
fetchLanguageDataBaseAll(rs) ==
    LET sortedLanguages == Slice0(SortByCount(CountLanguages(rs)), TopN)
    IN  IF Len(sortedLanguages) = 0 THEN <<>>
        ELSE LET total == SumCounts(CountLanguages(rs))
             IN  [k \in 1..Len(sortedLanguages) |->
                    [name |-> sortedLanguages[k].name,
                     percentage |-> IF total > 0
                                    THEN ToFixed1(sortedLanguages[k].count, total)
                                    ELSE 0]]

fetchLanguageData(rs) ==
    LET sortedLanguages == Slice0(SortByCount(CountLanguages(rs)), TopN)
    IN  IF Len(sortedLanguages) = 0 THEN <<>>
        ELSE LET total == SumCounts(sortedLanguages)
             IN  [k \in 1..Len(sortedLanguages) |->
                    [name |-> sortedLanguages[k].name,
                     percentage |-> IF total > 0
                                    THEN ToFixed1(sortedLanguages[k].count, total)
                                    ELSE 0]]

InitLang ==
    /\ repos \in RepoLists
    /\ languages = None
    /\ contributionDays = <<>>
    /\ now = 0
    /\ streak = None
    /\ NotRunning

FetchLanguageData ==
    /\ languages = None
    /\ languages' = Some(fetchLanguageData(repos))
    /\ UNCHANGED <<streakVars, repos, fetchVars, mainVars, retryVars>>

NextLang == FetchLanguageData

SpecLang == InitLang /\ [][NextLang]_vars

(***************************************************************************)
(* Reference notions the ranking claims are stated with, defined from the  *)
(* repository list alone.                                                  *)
(***************************************************************************)
Ranking == languages[1]

CountOf(l) == Cardinality({i \in 1..Len(repos) : repos[i].language = l})

FirstIndexOf(l) ==
    CHOOSE i \in 1..Len(repos) :
        /\ repos[i].language = l
        /\ \A j \in 1..(i - 1) : repos[j].language # l

Present == {l \in Langs : CountOf(l) > 0}
Kept == {Ranking[k].name : k \in 1..Len(Ranking)}

\* l ranks before m: a higher count, or the same count and met earlier
RanksBefore(l, m) ==
    \/ CountOf(l) > CountOf(m)
    \/ CountOf(l) = CountOf(m) /\ FirstIndexOf(l) < FirstIndexOf(m)

RECURSIVE SumOver(_, _)
SumOver(f, S) ==
    IF S = {} THEN 0
    ELSE LET x == CHOOSE y \in S : TRUE IN f[x] + SumOver(f, S \ {x})

\* sum of the returned percentages, in tenths
PercentageSum == SumOver([k \in 1..Len(Ranking) |-> Ranking[k].percentage],
                         1..Len(Ranking))

KeptTotal == SumOver([l \in Langs |-> CountOf(l)], Kept)

Abs(x) == IF x < 0 THEN -x ELSE x

(***************************************************************************)
(* C7.  When at least one repository has a primary language, the           *)
(* percentages of the kept (at most five) languages, each rounded to one   *)
(* decimal place, sum to exactly 100.0; so they do for the counts          *)
(* {Go: 5, Python: 3, JS: 3, Rust: 1, C: 1, Zig: 1}.                       *)
(***************************************************************************)
C7_PercentagesSumTo100 ==
    (languages # None /\ Present # {}) => PercentageSum = 1000

(***************************************************************************)
(* C7 as amended.  Each kept percentage is the language's share of the     *)
(* kept languages' total count rounded to one decimal place, so the kept   *)
(* percentages sum to 100.0 only up to rounding: the sum is within 0.05    *)
(* per kept language of 100.0; for the example counts the kept five are    *)
(* 38.5, 23.1, 23.1, 7.7 and 7.7, which sum to 100.1.                      *)
(***************************************************************************)
C7_PercentagesSumTo100UpToRounding ==
    (languages # None /\ Present # {}) =>
        /\ Len(Ranking) >= 1
        /\ \A k \in 1..Len(Ranking) :
             LET exact2000 == 2000 * CountOf(Ranking[k].name)
                 p == Ranking[k].percentage
             IN  \* p is a nearest tenth of 100 * count / KeptTotal
                 /\ (2 * p - 1) * KeptTotal <= exact2000
                 /\ exact2000 <= (2 * p + 1) * KeptTotal
        /\ 2 * Abs(PercentageSum - 1000) <= Len(Ranking)
        /\ repos = ExampleRepos =>
             /\ [k \in 1..Len(Ranking) |-> Ranking[k].percentage]
                  = <<385, 231, 231, 77, 77>>
             /\ PercentageSum = 1001

C7_Witness ==
    /\ languages # None
    /\ repos = ExampleRepos
    /\ Len(Ranking) = 5
    /\ PercentageSum = 1001

\* a sixth language is dropped and the kept shares still fill 100.0
C7_WitnessExact ==
    /\ languages # None
    /\ Cardinality(Present) = 6
    /\ Len(Ranking) = 5
    /\ PercentageSum = 1000

(***************************************************************************)
(* C8.  The ranking holds at most 5 languages, in non-increasing order of  *)
(* repository count with ties in order of first encounter; no omitted      *)
(* language has a strictly higher count than a kept one, and of equal      *)
(* counts at the cut the earlier-encountered one is kept; repositories     *)
(* without a primary language add to no count and not to the percentage    *)
(* base.                                                                   *)
(***************************************************************************)
C8_TopFiveRanking ==
    languages # None =>
        /\ Len(Ranking) <= 5
        /\ Len(Ranking) = (IF Cardinality(Present) < 5 THEN Cardinality(Present) ELSE 5)
        /\ Kept \subseteq Present
        /\ \A j \in 1..Len(Ranking), k \in 1..Len(Ranking) :
             j < k => RanksBefore(Ranking[j].name, Ranking[k].name)
        /\ \A o \in Present \ Kept : \A l \in Kept :
             /\ CountOf(o) <= CountOf(l)
             /\ RanksBefore(l, o)
        /\ \A k \in 1..Len(Ranking) :
             Ranking[k].percentage = ToFixed1(CountOf(Ranking[k].name), KeptTotal)

\* a tie at the cut, a repository without a language, a language omitted
C8_Witness ==
    /\ languages # None
    /\ Len(Ranking) = 5
    /\ \E o \in Present \ Kept : \E l \in Kept :
         CountOf(o) = CountOf(l) /\ FirstIndexOf(l) < FirstIndexOf(o)
    /\ \E i \in 1..Len(repos) : repos[i].language = Null
    /\ \E j \in 1..4 : CountOf(Ranking[j].name) > CountOf(Ranking[j + 1].name)
    /\ repos[1].language # Ranking[1].name

(***************************************************************************)
(* fetchWithRetry and the four fetches of fetchGitHubStats.  A JavaScript  *)
(* value that may be undefined is None or Some(v); an object is a record   *)
(* of such fields.                                                         *)
(***************************************************************************)
Retries == 3
PageLimit == 10
BackoffBase == 1000

Undefined == None

\* what one call of fetch() can do: resolve with an ok response, with a 403
\* carrying x-ratelimit-reset, with another response that is not ok, or reject
Responses == {"ok", "rateLimited", "httpError", "networkError"}

\* the message of the error one failed attempt throws
ErrorOf(resp) ==
    CASE resp = "rateLimited" -> "Rate limit exceeded. Resets at"
      [] resp = "httpError" -> "HTTP status"
      [] resp = "notFound" -> "HTTP status"
      [] resp = "forbidden" -> "HTTP status"
      [] resp = "networkError" -> "network error"

RECURSIVE Pow2(_)
Pow2(n) == IF n = 0 THEN 1 ELSE 2 * Pow2(n - 1)

\* mutant: the delay does not grow with the attempt
RetryOrThrowFlatDelay(tk, resp) ==
    IF tk.i = Retries - 1
    THEN [tk EXCEPT !.st = "rejected", !.error = ErrorOf(resp)]
    ELSE [tk EXCEPT !.i = @ + 1, !.delays = Append(@, BackoffBase)]

\* the catch block of fetchWithRetry after attempt tk.i failed on resp
RetryOrThrow(tk, resp) ==
    IF tk.i = Retries - 1
    THEN [tk EXCEPT !.st = "rejected", !.error = ErrorOf(resp)]
    ELSE [tk EXCEPT !.i = @ + 1, !.delays = Append(@, Pow2(tk.i) * BackoffBase)]

Fulfilled(tk) == [tk EXCEPT !.st = "fulfilled"]
Rejected(tk, msg) == [tk EXCEPT !.st = "rejected", !.error = msg]

\* Promise.all over the four fetches: settled once, rejected by the first
\* rejection, resolved when all four are fulfilled
PromiseAll(j, ts) ==
    IF j # "pending" THEN j
    ELSE IF \E t \in Tasks : ts[t].st = "rejected" THEN "rejected"
    ELSE IF \A t \in Tasks : ts[t].st = "fulfilled" THEN "resolved"
    ELSE "pending"

\* the process is alive and fetchGitHubStats has issued the fetches
Fetching == pc \in {"fetching", "failed"}

\* task t moves to tk2; the Promise.all promise follows
Settle(t, tk2) ==
    /\ task' = [task EXCEPT ![t] = tk2]
    /\ joined' = PromiseAll(joined, task')
    /\ error' = IF joined = "pending" /\ tk2.st = "rejected" THEN tk2.error ELSE error

\* fetchUserData: one attempt of its fetchWithRetry, and what follows a response
UserDataStep ==
    /\ Fetching
    /\ task["user"].st = "pending"
    /\ \E resp \in Responses, body \in {"json", "malformed"} :
         LET tk == task["user"]
             tk2 == IF resp # "ok" THEN RetryOrThrow(tk, resp)
                    ELSE IF body = "malformed" THEN Rejected(tk, "invalid json")
                    ELSE Fulfilled(tk)
         IN  /\ Settle("user", tk2)
             /\ userStats' = IF tk2.st = "fulfilled"
                             THEN Some([followers |-> Some(2), following |-> Some(0),
                                        public_repos |-> Some(4)])
                             ELSE userStats
    /\ UNCHANGED <<repoStats, contributionStats, languageStats>>
    /\ UNCHANGED <<streakVars, langVars, mainVars, retryVars>>

\* fetchRepositoryStats: one attempt for the current page, and the loop step
\* after a response; every non-empty page holds one repository with one star
RepositoryStatsStep ==
    /\ Fetching
    /\ task["repos"].st = "pending"
    /\ \E resp \in Responses, body \in {"page", "empty", "malformed"} :
         /\ body = "page" => task["repos"].page <= MaxServerPages
         /\ LET tk == task["repos"]
                tk2 == IF resp # "ok" THEN RetryOrThrow(tk, resp)
                       ELSE IF body = "malformed" THEN Rejected(tk, "invalid json")
                       ELSE IF body = "empty" THEN Fulfilled(tk)
                       ELSE IF tk.page + 1 <= PageLimit
                            THEN [tk EXCEPT !.page = @ + 1, !.i = 0, !.delays = <<>>]
                            ELSE Fulfilled([tk EXCEPT !.page = @ + 1])
            IN  /\ Settle("repos", tk2)
                /\ repoStats' = IF tk2.st = "fulfilled"
                                THEN Some([totalStars |-> Some(tk2.page - 1),
                                           totalForks |-> Some(0)])
                                ELSE repoStats
    /\ UNCHANGED <<userStats, contributionStats, languageStats>>
    /\ UNCHANGED <<streakVars, langVars, mainVars, retryVars>>

\* fetchContributionData: one attempt of the GraphQL request, and what follows
\* a response: errors, no user, or the calendar handed to calculateStreak
ContributionDataStep ==
    /\ Fetching
    /\ task["contributions"].st = "pending"
    /\ \E resp \in Responses, body \in {"data", "errors", "noUser", "malformed"} :
         LET tk == task["contributions"]
             tk2 == IF resp # "ok" THEN RetryOrThrow(tk, resp)
                    ELSE IF body = "malformed" THEN Rejected(tk, "invalid json")
                    ELSE IF body = "errors" THEN Rejected(tk, "GraphQL Error")
                    ELSE IF body = "noUser" THEN Rejected(tk, "User not found")
                    ELSE Fulfilled(tk)
         IN  /\ Settle("contributions", tk2)
             /\ contributionStats' =
                  IF tk2.st = "fulfilled"
                  THEN Some([totalCommits |-> Some(5),
                             totalIssues |-> Some(0),
                             totalPRs |-> Some(1 + 2),
                             streak |-> Some(calculateStreak(contributionDays, now)),
                             contributionDays |-> Some(contributionDays)])
                  ELSE contributionStats
    /\ UNCHANGED <<userStats, repoStats, languageStats>>
    /\ UNCHANGED <<streakVars, langVars, mainVars, retryVars>>

\* fetchLanguageData: one attempt of its request, and the ranking of a response
LanguageDataStep ==
    /\ Fetching
    /\ task["languages"].st = "pending"
    /\ \E resp \in Responses, body \in {"json", "malformed"} :
         LET tk == task["languages"]
             tk2 == IF resp # "ok" THEN RetryOrThrow(tk, resp)
                    ELSE IF body = "malformed" THEN Rejected(tk, "invalid json")
                    ELSE Fulfilled(tk)
         IN  /\ Settle("languages", tk2)
             /\ languageStats' = IF tk2.st = "fulfilled"
                                 THEN Some(fetchLanguageData(repos))
                                 ELSE languageStats
    /\ UNCHANGED <<userStats, repoStats, contributionStats>>
    /\ UNCHANGED <<streakVars, langVars, mainVars, retryVars>>

(***************************************************************************)
(* The aggregation step of fetchGitHubStats (the object literal it         *)
(* returns).  Reading a property of undefined throws a TypeError.          *)
(***************************************************************************)
\* v || 0 on a number that may be undefined
OrZero(v) == IF v = Undefined \/ v[1] = 0 THEN 0 ELSE v[1]

\* v || d on an object or array that may be undefined (every object is truthy)
OrElse(v, d) == IF v = Undefined THEN d ELSE v[1]

Aggregate(user, repo, contribution, language) ==
    IF user = Undefined \/ repo = Undefined \/ contribution = Undefined
    THEN [kind |-> "throw", error |-> "TypeError"]
    ELSE [kind |-> "return",
          value |-> [followers |-> OrZero(user[1].followers),
                     following |-> OrZero(user[1].following),
                     publicRepos |-> OrZero(user[1].public_repos),
                     totalStars |-> OrZero(repo[1].totalStars),
                     totalForks |-> OrZero(repo[1].totalForks),
                     totalIssues |-> OrZero(contribution[1].totalIssues),
                     totalPRs |-> OrZero(contribution[1].totalPRs),
                     totalCommits |-> OrZero(contribution[1].totalCommits),
                     contributionStreak |->
                         OrElse(contribution[1].streak, [current |-> 0, max |-> 0]),
                     contributionDays |-> OrElse(contribution[1].contributionDays, <<>>),
                     languages |-> OrElse(language, <<>>)]]

(***************************************************************************)
(* main                                                                    *)
(***************************************************************************)
\* validateEnvironment() returns, and fetchGitHubStats issues the four fetches,
\* or it throws into main's catch
ValidateEnvironment ==
    /\ pc = "start"
    /\ \E valid \in BOOLEAN :
         /\ pc' = IF valid THEN "fetching" ELSE "failed"
         /\ error' = IF valid THEN error ELSE "Missing required environment variables"
    /\ UNCHANGED <<task, joined, userStats, repoStats, contributionStats, languageStats>>
    /\ UNCHANGED <<stats, svgContent, savedFile, exitCode>>
    /\ UNCHANGED <<streakVars, langVars, retryVars>>

\* Promise.all resolved: the aggregation runs and main receives its value, or
\* the aggregation throws inside the try and the catch rethrows
FetchStatsReturn ==
    /\ pc = "fetching"
    /\ joined = "resolved"
    /\ LET out == Aggregate(userStats, repoStats, contributionStats, languageStats)
       IN  IF out.kind = "return"
           THEN /\ stats' = Some(out.value)
                /\ pc' = "fetched"
                /\ error' = error
           ELSE /\ stats' = stats
                /\ pc' = "failed"
                /\ error' = out.error
    /\ UNCHANGED <<task, joined, userStats, repoStats, contributionStats, languageStats>>
    /\ UNCHANGED <<svgContent, savedFile, exitCode>>
    /\ UNCHANGED <<streakVars, langVars, retryVars>>

\* mutant: the catch of fetchGitHubStats logs the error and does not rethrow it
FetchStatsCatchSwallows ==
    /\ pc = "fetching"
    /\ joined = "rejected"
    /\ pc' = "fetched"
    /\ UNCHANGED <<fetchVars, stats, svgContent, savedFile, exitCode>>
    /\ UNCHANGED <<streakVars, langVars, retryVars>>

\* Promise.all rejected: the catch of fetchGitHubStats logs and rethrows
FetchStatsCatch ==
    /\ pc = "fetching"
    /\ joined = "rejected"
    /\ pc' = "failed"
    /\ UNCHANGED <<fetchVars, stats, svgContent, savedFile, exitCode>>
    /\ UNCHANGED <<streakVars, langVars, retryVars>>

\* generateSVG(stats, "dark"): reading stats.username of undefined throws
GenerateSVG ==
    /\ pc = "fetched"
    /\ IF stats = Undefined
       THEN /\ pc' = "failed"
            /\ error' = "TypeError"
            /\ svgContent' = svgContent
       ELSE /\ pc' = "generated"
            /\ error' = error
            /\ svgContent' = Some(stats[1])
    /\ UNCHANGED <<task, joined, userStats, repoStats, contributionStats, languageStats>>
    /\ UNCHANGED <<stats, savedFile, exitCode>>
    /\ UNCHANGED <<streakVars, langVars, retryVars>>

\* saveFile(svgPath, svgContent): writes the file, or rethrows the I/O error
SaveFile ==
    /\ pc = "generated"
    /\ \E written \in BOOLEAN :
         /\ savedFile' = written
         /\ pc' = IF written THEN "saved" ELSE "failed"
         /\ error' = IF written THEN error ELSE "write failed"
    /\ UNCHANGED <<task, joined, userStats, repoStats, contributionStats, languageStats>>
    /\ UNCHANGED <<stats, svgContent, exitCode>>
    /\ UNCHANGED <<streakVars, langVars, retryVars>>

\* main returns after its last log lines and the process ends normally
Complete ==
    /\ pc = "saved"
    /\ pc' = "complete"
    /\ exitCode' = Some(0)
    /\ UNCHANGED <<fetchVars, stats, svgContent, savedFile>>
    /\ UNCHANGED <<streakVars, langVars, retryVars>>

\* the catch of main: logger.error, process.exit(1)
MainCatch ==
    /\ pc = "failed"
    /\ pc' = "exited"
    /\ exitCode' = Some(1)
    /\ UNCHANGED <<fetchVars, stats, svgContent, savedFile>>
    /\ UNCHANGED <<streakVars, langVars, retryVars>>

\* the calendar the contributions response of a run carries
SampleDays ==
    <<[date |-> MaxDay - 1, contributionCount |-> 3],
      [date |-> MaxDay, contributionCount |-> 0]>>

InitMain ==
    /\ call = NewCall
    /\ pc = "start"
    /\ task = [t \in Tasks |-> NewTask]
    /\ joined = "pending"
    /\ error = ""
    /\ userStats = None
    /\ repoStats = None
    /\ contributionStats = None
    /\ languageStats = None
    /\ stats = None
    /\ svgContent = None
    /\ savedFile = FALSE
    /\ exitCode = None
    /\ contributionDays = SampleDays
    /\ now = MaxDay * HoursPerDay
    /\ streak = None
    /\ repos = ExampleRepos
    /\ languages = None

NextMain ==
    \/ ValidateEnvironment
    \/ UserDataStep
    \/ RepositoryStatsStep
    \/ ContributionDataStep
    \/ LanguageDataStep
    \/ FetchStatsReturn
    \/ FetchStatsCatch
    \/ GenerateSVG
    \/ SaveFile
    \/ Complete
    \/ MainCatch

SpecMain == InitMain /\ [][NextMain]_vars

\* a settled promise's continuation runs: the event loop never starves the
\* catch blocks
FairSpecMain ==
    SpecMain /\ WF_vars(FetchStatsCatch) /\ WF_vars(MainCatch)

(***************************************************************************)
(* The aggregation step alone, on every combination of sub-results: each   *)
(* sub-result absent or present, each field of a present one absent, zero  *)
(* or positive.                                                            *)
(***************************************************************************)
Numbers == {Undefined, Some(0), Some(2)}

UserResults == {Undefined} \cup
    {Some(r) : r \in [followers : Numbers, following : {Some(1)},
                      public_repos : {Some(4)}]}

RepoResults == {Undefined} \cup
    {Some(r) : r \in [totalStars : Numbers, totalForks : {Some(1)}]}

ContributionResults == {Undefined} \cup
    {Some(r) : r \in [totalCommits : Numbers, totalIssues : Numbers,
                      totalPRs : Numbers,
                      streak : {Undefined, Some([current |-> 1, max |-> 2])},
                      contributionDays :
                          {Undefined, Some(<<>>),
                           Some(<<[date |-> 0, contributionCount |-> 3]>>)}]}

LanguageResults == {Undefined, Some(<<>>), Some(<<[name |-> "Go", percentage |-> 1000]>>)}

InitAggregate ==
    /\ call = NewCall
    /\ pc = "fetching"
    /\ task = [t \in Tasks |-> Fulfilled(NewTask)]
    /\ joined = "resolved"
    /\ error = ""
    /\ userStats \in UserResults
    /\ repoStats \in RepoResults
    /\ contributionStats \in ContributionResults
    /\ languageStats \in LanguageResults
    /\ stats = None
    /\ svgContent = None
    /\ savedFile = FALSE
    /\ exitCode = None
    /\ contributionDays = <<>>
    /\ now = 0
    /\ streak = None
    /\ repos = <<>>
    /\ languages = None

NextAggregate ==
    \/ FetchStatsReturn
    \/ GenerateSVG
    \/ SaveFile
    \/ Complete
    \/ MainCatch

SpecAggregate == InitAggregate /\ [][NextAggregate]_vars

AnyRejected == \E t \in Tasks : task[t].st = "rejected"

NoOutput ==
    /\ stats = None
    /\ pc \notin {"fetched", "generated", "saved", "complete"}
    /\ svgContent = None
    /\ ~savedFile
    /\ exitCode \in {None, Some(1)}

C10_AnyFetchFailureAbortsRun ==
    /\ [](AnyRejected => NoOutput)
    /\ AnyRejected ~> (pc = "exited" /\ exitCode = Some(1))

\* one fetch failed after its third attempt, the other three were fulfilled
\* (two of them after the failure), and the run exited with code 1
C10_Witness ==
    /\ pc = "exited"
    /\ exitCode = Some(1)
    /\ task["repos"].st = "rejected"
    /\ task["repos"].i = Retries - 1
    /\ task["user"].st = "fulfilled"
    /\ task["contributions"].st = "fulfilled"
    /\ task["languages"].st = "fulfilled"
    /\ NoOutput

(***************************************************************************)
(* fetchWithRetry(url, options) with the default retries, one call on its  *)
(* own: every attempt's response is kept in call.log.  Among the responses *)
(* that are not ok, "notFound" is the 404 the profile request receives for *)
(* a user that does not exist and "forbidden" a 403 that carries no        *)
(* x-ratelimit-reset header.                                               *)
(***************************************************************************)
CallResponses == Responses \cup {"notFound", "forbidden"}

\* one pass of the loop body: fetch(), the status checks, return or catch
FetchWithRetryAttempt ==
    /\ call.st = "pending"
    /\ \E resp \in CallResponses :
         LET tried == [call EXCEPT !.log = Append(@, resp)]
         IN  call' = IF resp = "ok"
                     THEN [Fulfilled(tried) EXCEPT !.returned = Some(resp)]
                     ELSE RetryOrThrow(tried, resp)
    /\ UNCHANGED <<streakVars, langVars, fetchVars, mainVars>>

InitRetry ==
    /\ call = NewCall
    /\ pc = "idle"
    /\ task = [t \in Tasks |-> NewTask]
    /\ joined = "pending"
    /\ error = ""
    /\ userStats = None
    /\ repoStats = None
    /\ contributionStats = None
    /\ languageStats = None
    /\ stats = None
    /\ svgContent = None
    /\ savedFile = FALSE
    /\ exitCode = None
    /\ contributionDays = <<>>
    /\ now = 0
    /\ streak = None
    /\ repos = <<>>
    /\ languages = None

NextRetry == FetchWithRetryAttempt

SpecRetry == InitRetry /\ [][NextRetry]_vars

\* every fetch() settles: the network answers or fails each request
FairSpecRetry == SpecRetry /\ WF_vars(FetchWithRetryAttempt)

(***************************************************************************)
(* C11.  A missing user is surfaced as a fatal not-found error and never   *)
(* retried: once the profile request is answered with the not-found        *)
(* status, no further attempt is made (exactly one attempt carries the     *)
(* answer) and the error propagates.                                       *)
(***************************************************************************)
C11_MissingUserNeverRetried ==
    /\ \A k \in 1..(Len(call.log) - 1) : call.log[k] # "notFound"
    /\ (call.log # <<>> /\ call.log[Len(call.log)] = "notFound")
       => call.st = "rejected"

(***************************************************************************)
(* C15.  fetchWithRetry (retries = 3) always terminates after at most 3    *)
(* attempts, waiting 1000 ms after the first failed attempt and 2000 ms    *)
(* after the second; it returns only a response whose status is ok, makes  *)
(* no attempt after a successful one, and when the third attempt fails too *)
(* it throws that attempt's error: the rate-limit error for a 403 carrying *)
(* x-ratelimit-reset, otherwise the generic HTTP or network error.         *)
(***************************************************************************)
Attempts == Len(call.log)

RetryShape ==
    /\ Attempts <= 3
    /\ \A k \in 1..(Attempts - 1) : call.log[k] # "ok"
    /\ call.delays = (IF call.st = "pending"
                      THEN SubSeq(<<1000, 2000>>, 1, Attempts)
                      ELSE SubSeq(<<1000, 2000>>, 1, Attempts - 1))
    /\ call.st = "fulfilled" =>
         /\ call.returned = Some("ok")
         /\ call.log[Attempts] = "ok"
         /\ call.error = ""
    /\ call.st # "fulfilled" => call.returned = None
    /\ call.st = "rejected" =>
         /\ Attempts = 3
         /\ call.error =
              (IF call.log[3] = "rateLimited" THEN "Rate limit exceeded. Resets at"
               ELSE IF call.log[3] = "networkError" THEN "network error"
               ELSE "HTTP status")
    /\ call.st = "pending" => Attempts < 3

C15_RetryTerminatesWithBackoff ==
    /\ []RetryShape
    /\ <>(call.st # "pending")

\* two failures, then a rate-limited third attempt: both delays, its error
C15_Witness ==
    /\ call.st = "rejected"
    /\ call.log = <<"networkError", "httpError", "rateLimited">>
    /\ call.delays = <<1000, 2000>>
    /\ call.error = "Rate limit exceeded. Resets at"

\* a 403 without the reset header on the last attempt: the generic error
C15_WitnessForbidden ==
    /\ call.st = "rejected"
    /\ call.log = <<"rateLimited", "rateLimited", "forbidden">>
    /\ call.error = "HTTP status"

\* a success on the second attempt ends the call
C15_WitnessSuccess ==
    /\ call.st = "fulfilled"
    /\ call.log = <<"httpError", "ok">>
    /\ call.delays = <<1000>>
    /\ call.returned = Some("ok")

====
